---- MODULE Spec2Model ----
(***************************************************************************)
(* A model of the arbitrary-precision integer library (bigint) and of the  *)
(* calculator built on it.                                                 *)
(*                                                                         *)
(* Machine words.  The model checker's integers are narrower than a        *)
(* uint32_t, so a uint32_t is held as the pair <<lo, hi>> of its two       *)
(* 16-bit halves (value lo + 65536 * hi) and the C operators on uint32_t   *)
(* are the operators Add32, Sub32, Lt32, ... below, all modulo 2^32.  A    *)
(* uint16_t is a plain integer in 0..65535.  C arrays are sequences: the   *)
(* C element a[i] is a[i + 1] here.                                        *)
(***************************************************************************)
EXTENDS Integers, Sequences, FiniteSets, TLC

UINT16_MAX == 65535

B16 == UINT16_MAX + 1

(* ---------------------------------------------------------------------- *)
(* uint32_t arithmetic on <<lo, hi>> pairs                                 *)
(* ---------------------------------------------------------------------- *)

U32(n) == <<n % B16, n \div B16>>

Zero32 == <<0, 0>>

IsZero32(a) == a[1] = 0 /\ a[2] = 0

Lt32(a, b) == a[2] < b[2] \/ (a[2] = b[2] /\ a[1] < b[1])

Add32(a, b) ==
    LET lo == a[1] + b[1]
        hi == a[2] + b[2] + (lo \div B16)
    IN  <<lo % B16, hi % B16>>

Sub32(a, b) ==
    LET lo == a[1] - b[1]
        br == IF lo < 0 THEN 1 ELSE 0
        hi == a[2] - b[2] - br
    IN  <<(lo + B16) % B16, (hi + 2 * B16) % B16>>

(* The 32-bit product of two 16-bit numbers, by 8-bit pieces of b. *)
Mul16(a, b) ==
    LET p0 == a * (b % 256)
        p1 == a * (b \div 256)
        t  == p0 + 256 * (p1 % 256)
    IN  <<t % B16, ((p1 \div 256) + (t \div B16)) % B16>>

(* prod = (uint64_t)x * y; *z_hi = prod >> 32; *z_lo = (uint32_t)prod *)
Columns(p00, p01, p10, p11) ==
    LET c1  == p00[2] + p01[1] + p10[1]
        c2  == p01[2] + p10[2] + p11[1] + (c1 \div B16)
        c3  == p11[2] + (c2 \div B16)
    IN  [z_hi |-> <<c2 % B16, c3 % B16>>, z_lo |-> <<p00[1], c1 % B16>>]

mul_32_by_32(x, y) ==
    Columns(Mul16(x[1], y[1]), Mul16(x[1], y[2]),
            Mul16(x[2], y[1]), Mul16(x[2], y[2]))

(* x * y on uint32_t: the low 32 bits of the product *)
Mul32(x, y) == mul_32_by_32(x, y).z_lo

(* t / v and t % v for a uint32_t t and a non-zero uint16_t v, by long *)
(* division over the four bytes of t.                                  *)
DivMod32(t, v) ==
    LET b3 == t[2] \div 256
        b2 == t[2] % 256
        b1 == t[1] \div 256
        b0 == t[1] % 256
        q3 == b3 \div v
        r3 == b3 % v
        c2 == r3 * 256 + b2
        q2 == c2 \div v
        r2 == c2 % v
        c1 == r2 * 256 + b1
        q1 == c1 \div v
        r1 == c1 % v
        c0 == r1 * 256 + b0
        q0 == c0 \div v
        r0 == c0 % v
    IN  [q |-> <<q1 * 256 + q0, q3 * 256 + q2>>, r |-> r0]

(* ---------------------------------------------------------------------- *)
(* Limb kernel                                                             *)
(* ---------------------------------------------------------------------- *)

NoErr == ""

FirstErr(e1, e2) == IF e1 # NoErr THEN e1 ELSE e2

B2N(b) == IF b THEN 1 ELSE 0

RECURSIVE algorithm_a_loop(_, _, _, _, _, _, _)
algorithm_a_loop(n, u, v, w, j, carry, err) ==
    IF j < n
    THEN LET sum_a   == Add32(u[j + 1], U32(B2N(carry)))
             carry_a == Lt32(sum_a, u[j + 1])
             sum_b   == Add32(sum_a, v[j + 1])
             carry_b == Lt32(sum_b, sum_a)
             e       == IF B2N(carry_a) + B2N(carry_b) <= 1
                        THEN NoErr ELSE "carry_a + carry_b <= 1"
         IN  algorithm_a_loop(n, u, v, Append(w, sum_b), j + 1,
                              B2N(carry_a) + B2N(carry_b) >= 1,
                              FirstErr(err, e))
    ELSE [err |-> err, w |-> Append(w, U32(B2N(carry)))]

(* Add n-place integers u and v into (n + 1)-place w. *)
algorithm_a(n, u, v) == algorithm_a_loop(n, u, v, <<>>, 0, FALSE, NoErr)

RECURSIVE cmp_loop(_, _, _)
cmp_loop(i, u, v) ==
    IF i >= 0
    THEN IF u[i + 1] # v[i + 1]
         THEN (IF Lt32(u[i + 1], v[i + 1]) THEN -1 ELSE 1)
         ELSE cmp_loop(i - 1, u, v)
    ELSE 0

(* Compare u with v, returning -1 if u < v, 1 if u > v, and 0 otherwise. *)
cmp(u_len, u, v_len, v) ==
    IF u_len # v_len
    THEN (IF u_len < v_len THEN -1 ELSE 1)
    ELSE cmp_loop(u_len - 1, u, v)

RECURSIVE algorithm_s_loop(_, _, _, _, _, _, _)
algorithm_s_loop(n, u, v, w, j, borrow, err) ==
    IF j < n
    THEN LET diff_a   == Sub32(u[j + 1], U32(B2N(borrow)))
             borrow_a == Lt32(u[j + 1], diff_a)
             diff_b   == Sub32(diff_a, v[j + 1])
             borrow_b == Lt32(diff_a, diff_b)
             e        == IF B2N(borrow_a) + B2N(borrow_b) <= 1
                         THEN NoErr ELSE "borrow_a + borrow_b <= 1"
         IN  algorithm_s_loop(n, u, v, Append(w, diff_b), j + 1,
                              B2N(borrow_a) + B2N(borrow_b) >= 1,
                              FirstErr(err, e))
    ELSE [err |-> FirstErr(err, IF borrow THEN "Nothing to borrow from!"
                                          ELSE NoErr),
          w   |-> w]

(* Compute w = u - v, where u, v, w are n-place integers, and u >= v. *)
algorithm_s(n, u, v) ==
    algorithm_s_loop(n, u, v, <<>>, 0, FALSE,
                     IF cmp(n, u, n, v) >= 0 THEN NoErr
                     ELSE "Subtraction result would be negative!")

RECURSIVE algorithm_m_inner(_, _, _, _, _, _, _)
(* One step of the inner loop, given (hi_prod:lo_prod) = u[i] * v[j]:   *)
(* the new w[i + j], the new carry limb k and the assertion on it.      *)
(* algorithm_m_step with the carry out of w[i + j] += lo_prod left out *)
algorithm_m_step_one_carry(wij0, k0, hi_prod, lo_prod0) ==
    LET lo_prod  == Add32(lo_prod0, k0)
        carry_a  == Lt32(lo_prod, k0)
        wij      == Add32(wij0, lo_prod)
        k        == Add32(hi_prod, U32(B2N(carry_a)))
    IN  [wij |-> wij, k |-> k,
         err |-> IF Lt32(k, hi_prod) THEN "k cannot overflow" ELSE NoErr]

algorithm_m_step(wij0, k0, hi_prod, lo_prod0) ==
    LET lo_prod  == Add32(lo_prod0, k0)
        carry_a  == Lt32(lo_prod, k0)
        wij      == Add32(wij0, lo_prod)
        carry_b  == Lt32(wij, lo_prod)
        k        == Add32(hi_prod, U32(B2N(carry_a) + B2N(carry_b)))
    IN  [wij |-> wij, k |-> k,
         err |-> IF Lt32(k, hi_prod) THEN "k cannot overflow" ELSE NoErr]

algorithm_m_store(m, u, vj, w, j, i, err, st) ==
    algorithm_m_inner(m, u, vj, [w EXCEPT ![i + j + 1] = st.wij], j, i + 1,
                      [k |-> st.k, err |-> FirstErr(err, st.err)])

algorithm_m_prod(m, u, vj, w, j, i, st, pr) ==
    algorithm_m_store(m, u, vj, w, j, i, st.err,
                      algorithm_m_step(w[i + j + 1], st.k, pr.z_hi, pr.z_lo))

algorithm_m_inner(m, u, vj, w, j, i, st) ==
    IF i < m
    THEN algorithm_m_prod(m, u, vj, w, j, i, st, mul_32_by_32(u[i + 1], vj))
    ELSE [w |-> Append(w, st.k), err |-> st.err]

RECURSIVE algorithm_m_outer(_, _, _, _, _, _, _)
algorithm_m_outer(m, n, u, v, w, j, err) ==
    IF j < n
    THEN IF IsZero32(v[j + 1])
         THEN algorithm_m_outer(m, n, u, v, Append(w, Zero32), j + 1, err)
         ELSE LET r == algorithm_m_inner(m, u, v[j + 1], w, j, 0,
                                         [k |-> Zero32, err |-> err])
              IN  algorithm_m_outer(m, n, u, v, r.w, j + 1, r.err)
    ELSE [err |-> err, w |-> w]

(* Multiply m-place u with n-place v, yielding (m + n)-place w.  The     *)
(* places w[j + m] are written for the first time at the end of pass j, *)
(* and no pass reads a place that was not yet written.                  *)
algorithm_m(m, n, u, v) ==
    algorithm_m_outer(m, n, u, v, [i \in 1..m |-> Zero32], 0, NoErr)

(* ---------------------------------------------------------------------- *)
(* Division kernel on 16-bit half-limbs                                    *)
(* ---------------------------------------------------------------------- *)

(* Divide (u_hi:u_lo) by v, setting q and r to the quotient and remainder. *)
div_32_by_16_result(dm) ==
    [err |-> IF dm.q[2] = 0 THEN NoErr ELSE "Division overflow!",
     q   |-> dm.q[1],
     r   |-> dm.r]

div_32_by_16(u_hi, u_lo, v) ==
    IF v = 0
    THEN [err |-> "Division by zero!", q |-> 0, r |-> 0]
    ELSE div_32_by_16_result(DivMod32(<<u_lo, u_hi>>, v))

RECURSIVE short_division_loop(_, _, _, _, _, _)
short_division_step(u, v, q, i, err, d) ==
    short_division_loop(u, v, <<d.q>> \o q, i - 1, d.r, FirstErr(err, d.err))

short_division_loop(u, v, q, i, k, err) ==
    IF i >= 0
    THEN short_division_step(u, v, q, i, err, div_32_by_16(k, u[i + 1], v))
    ELSE [err |-> err, q |-> q, r |-> k]

(* Divide n-place u by v, yielding n-place quotient q and scalar remainder r. *)
short_division(n, u, v) ==
    IF v = 0 THEN [err |-> "Division by zero!", q |-> <<>>, r |-> 0]
    ELSE IF n <= 0 THEN [err |-> "Dividing empty number!", q |-> <<>>, r |-> 0]
    ELSE short_division_loop(u, v, <<>>, n - 1, 0, NoErr)

RECURSIVE leading_zeros_loop(_, _)
leading_zeros_loop(x, n) ==
    IF x <= UINT16_MAX \div 2
    THEN leading_zeros_loop((x * 2) % B16, n + 1)
    ELSE n

(* Count leading zeros in x. x must not be zero (asserted by the caller's *)
(* precondition v[n - 1] != 0, checked before this is reached).           *)
leading_zeros(x) == leading_zeros_loop(x, 0)

RECURSIVE shift_left_loop(_, _, _, _, _)
shift_left_loop(n, u, m, i, k) ==
    IF i < n
    THEN LET t == u[i + 1] \div (2 ^ (16 - m))
         IN  shift_left_loop(n, [u EXCEPT ![i + 1] = ((u[i + 1] * (2 ^ m)) % B16) + k],
                             m, i + 1, t)
    ELSE [err |-> IF k = 0 THEN NoErr ELSE "Leftover carry!", u |-> u]

(* Shift n-place u m positions to the left. *)
shift_left(n, u, m) ==
    IF m <= 0 \/ m >= 16 THEN [err |-> "m > 0, m < 16", u |-> u]
    ELSE shift_left_loop(n, u, m, 0, 0)

RECURSIVE shift_right_loop(_, _, _, _)
shift_right_loop(u, m, i, k) ==
    IF i >= 0
    THEN LET t == (u[i + 1] * (2 ^ (16 - m))) % B16
         IN  shift_right_loop([u EXCEPT ![i + 1] = (u[i + 1] \div (2 ^ m)) + k],
                              m, i - 1, t)
    ELSE [err |-> IF k = 0 THEN NoErr ELSE "Leftover carry!", u |-> u]

(* Shift n-place u m positions to the right. *)
shift_right(n, u, m) ==
    IF m <= 0 \/ m >= 16 THEN [err |-> "m > 0, m < 16", u |-> u]
    ELSE shift_right_loop(u, m, n - 1, 0)

(* The correction loop of the quotient digit estimate:                   *)
(*   while (true) { if (qhat > UINT16_MAX ||                             *)
(*                      qhat * v[n-2] > ((rhat << 16) | u[j+n-2])) {     *)
(*                      qhat--; rhat += v[n-1];                          *)
(*                      if (rhat <= UINT16_MAX) continue; }              *)
(*                  break; }                                             *)
(* qhat and rhat are uint32_t.                                           *)
(* the correction loop without its test of the second digit *)
RECURSIVE qhat_loop_one_test(_, _, _, _, _)
qhat_loop_one_test(qhat, rhat, vn1, vn2, ujn2) ==
    IF qhat[2] > 0
    THEN LET q2 == Sub32(qhat, U32(1))
             r2 == Add32(rhat, U32(vn1))
         IN  IF r2[2] = 0
             THEN qhat_loop_one_test(q2, r2, vn1, vn2, ujn2)
             ELSE [qhat |-> q2, rhat |-> r2]
    ELSE [qhat |-> qhat, rhat |-> rhat]

RECURSIVE qhat_loop(_, _, _, _, _)
qhat_loop(qhat, rhat, vn1, vn2, ujn2) ==
    IF \/ qhat[2] > 0
       \/ Lt32(<<ujn2, rhat[1]>>, Mul32(qhat, U32(vn2)))
    THEN LET q2 == Sub32(qhat, U32(1))
             r2 == Add32(rhat, U32(vn1))
         IN  IF r2[2] = 0
             THEN qhat_loop(q2, r2, vn1, vn2, ujn2)
             ELSE [qhat |-> q2, rhat |-> r2]
    ELSE [qhat |-> qhat, rhat |-> rhat]

(* Multiply and subtract: u[j..j+n] -= qhat * v[0..n-1]; k, k2, d are    *)
(* uint16_t and wrap.                                                    *)
RECURSIVE mulsub_loop(_, _, _, _, _, _, _)
mulsub_step(n, u, v, qhat, j, i, k, p) ==
    LET k2a == p[2]
        d   == (u[j + i + 1] - p[1] + B16) % B16
        k2b == (k2a + B2N(d > u[j + i + 1])) % B16
        uji == (d - k + B16) % B16
        k2c == (k2b + B2N(uji > d)) % B16
    IN  mulsub_loop(n, [u EXCEPT ![j + i + 1] = uji], v, qhat, j, i + 1, k2c)

mulsub_loop(n, u, v, qhat, j, i, k) ==
    IF i <= n
    THEN mulsub_step(n, u, v, qhat, j, i, k,
                     Mul32(qhat, U32(IF i = n THEN 0 ELSE v[i + 1])))
    ELSE [u |-> u, k |-> k]

(* Add back: u[j..j+n] += v[0..n-1]; t is uint32_t. *)
RECURSIVE addback_loop(_, _, _, _, _, _)
addback_loop(n, u, v, j, i, k) ==
    IF i < n
    THEN LET t == u[j + i + 1] + v[i + 1] + k
         IN  addback_loop(n, [u EXCEPT ![j + i + 1] = t % B16], v, j, i + 1,
                          t \div B16)
    ELSE [u EXCEPT ![j + n + 1] = (u[j + n + 1] + k) % B16]

(* One pass of the main loop of algorithm_d, for the quotient place j:   *)
(* the estimate, its correction, multiply and subtract, the test of the  *)
(* remainder and the add back.  It yields the new u, the digit q[j], and *)
(* what the pass went through (qhat after correction, the borrow k).     *)
(* test_remainder with the add back left out *)
test_remainder_no_addback(n, v, j, qhat, ms) ==
    [u |-> ms.u, qj |-> qhat[1],
     qhat |-> qhat, k |-> ms.k, addback |-> FALSE]

test_remainder(n, v, j, qhat, ms) ==
    IF ms.k # 0
    THEN [u |-> addback_loop(n, ms.u, v, j, 0, 0),
          qj |-> (qhat[1] - 1 + B16) % B16,
          qhat |-> qhat, k |-> ms.k, addback |-> TRUE]
    ELSE [u |-> ms.u, qj |-> qhat[1],
          qhat |-> qhat, k |-> ms.k, addback |-> FALSE]

multiply_and_subtract(n, u, v, j, est) ==
    test_remainder(n, v, j, est.qhat, mulsub_loop(n, u, v, est.qhat, j, 0, 0))

calculate_qhat(n, u, v, j, dm) ==
    multiply_and_subtract(n, u, v, j,
        qhat_loop(dm.q, U32(dm.r), v[n], v[n - 1], u[j + n - 1]))

algorithm_d_pass(n, u, v, j) ==
    calculate_qhat(n, u, v, j, DivMod32(<<u[j + n], u[j + n + 1]>>, v[n]))

RECURSIVE algorithm_d_loop(_, _, _, _, _)
algorithm_d_next(n, v, q, j, ps) ==
    algorithm_d_loop(n, ps.u, v, [q EXCEPT ![j + 1] = ps.qj], j - 1)

algorithm_d_loop(n, u, v, q, j) ==
    IF j >= 0
    THEN algorithm_d_next(n, v, q, j, algorithm_d_pass(n, u, v, j))
    ELSE [u |-> u, q |-> q]

(* Divide (m + n)-place u by n-place v, yielding (m + 1)-place quotient  *)
(* q (written into the places 0..m of the caller's q) and n-place        *)
(* remainder u. u must have room for an (m + n + 1)th element.           *)
Unshifted(u) == [err |-> NoErr, u |-> u]

(* n = 1: short_division(m + n, u, v[0], q, &u[0]) *)
algorithm_d_short(m, n, u, q, sd) ==
    [err |-> sd.err,
     u   |-> [u EXCEPT ![1] = sd.r],
     q   |-> [i \in 1..Len(q) |-> IF i <= m + n THEN sd.q[i] ELSE q[i]]]

unnormalized(err, q, un) == [err |-> FirstErr(err, un.err), u |-> un.u, q |-> q]

unnormalize(n, shift, err, lp) ==
    unnormalized(err, lp.q,
                 IF shift # 0 THEN shift_right(n, lp.u, shift)
                 ELSE Unshifted(lp.u))

main_loop(m, n, q, shift, sv, su) ==
    unnormalize(n, shift, FirstErr(sv.err, su.err),
                algorithm_d_loop(n, su.u, sv.u, q, m))

normalize(m, n, u, v, q, shift) ==
    main_loop(m, n, q, shift,
              IF shift # 0 THEN shift_left(n, v, shift) ELSE Unshifted(v),
              IF shift # 0
              THEN shift_left(m + n + 1, [u EXCEPT ![m + n + 1] = 0], shift)
              ELSE Unshifted([u EXCEPT ![m + n + 1] = 0]))

algorithm_d(m, n, u, v, q) ==
    IF n <= 0 THEN [err |-> "v must be greater than zero!", u |-> u, q |-> q]
    ELSE IF v[n] = 0
    THEN [err |-> "v must not have leading zeros!", u |-> u, q |-> q]
    ELSE IF n = 1
    THEN algorithm_d_short(m, n, u, q, short_division(m + n, u, v[1]))
    ELSE normalize(m, n, u, v, q, leading_zeros(v[n]))

(* ---------------------------------------------------------------------- *)
(* Half-limb bridge                                                        *)
(* ---------------------------------------------------------------------- *)

(* Copy n uint32_t values from u32 to u16: low half first. *)
u32_to_u16(n, u32) ==
    [i \in 1..(2 * n) |-> IF i % 2 = 1 THEN u32[(i + 1) \div 2][1]
                                       ELSE u32[i \div 2][2]]

(* Copy n uint16_t values from u16 to u32. *)
u16_to_u32(n, u16) ==
    [i \in 1..(n \div 2) |-> <<u16[2 * i - 1], u16[2 * i]>>]

(* A place of a local array that the code has not written yet: never    *)
(* read before it is written.                                           *)
Unwritten == 43690

(* If v16 has a leading zero, treat it as one place shorter. *)
wrapper_v_zero(n, v16) == B2N(v16[n * 2] = 0)

(* the lengths algorithm_d is called with, m * 2 with v_zero left out *)
wrapper_call_same_m(m, n, v_zero) == [m |-> m * 2, n |-> n * 2 - v_zero]

(* algorithm_d(m * 2 + v_zero, n * 2 - v_zero, u16, v16, q16): its m, n *)
wrapper_call(m, n, v_zero) == [m |-> m * 2 + v_zero, n |-> n * 2 - v_zero]

(* Divide (m + n)-place u with n-place v, yielding (m + 1)-place quotient *)
(* q and n-place remainder r.                                             *)
(* After algorithm_d: if v16 was short, pad the remainder; otherwise pad *)
(* the quotient; then copy both back to uint32_t.                       *)
wrapper_pad(m, n, v_zero, d) ==
    [err |-> d.err,
     q   |-> u16_to_u32((m + 1) * 2,
                        IF v_zero = 1 THEN d.q
                        ELSE [d.q EXCEPT ![(m + 1) * 2] = 0]),
     r   |-> u16_to_u32(n * 2,
                        IF v_zero = 1 THEN [d.u EXCEPT ![n * 2] = 0] ELSE d.u)]

wrapper_divide(m, n, u16, v16, q16, v_zero) ==
    wrapper_pad(m, n, v_zero,
                algorithm_d(m * 2 + v_zero, n * 2 - v_zero, u16, v16, q16))

algorithm_d_wrapper(m, n, u, v) ==
    IF n <= 0 THEN [err |-> "Division by zero!", q |-> <<>>, r |-> <<>>]
    ELSE IF IsZero32(v[n]) THEN [err |-> "v has leading zero!", q |-> <<>>, r |-> <<>>]
    ELSE wrapper_divide(m, n,
                        u32_to_u16(m + n, u) \o <<Unwritten>>,
                        u32_to_u16(n, v),
                        [i \in 1..((m + 1) * 2) |-> Unwritten],
                        B2N(v[n][2] = 0))

(* ---------------------------------------------------------------------- *)
(* Base conversion.  A string is a sequence of character codes (ASCII),   *)
(* without its terminating NUL.                                           *)
(* ---------------------------------------------------------------------- *)

Char0 == 48

CharMinus == 45

RECURSIVE multiply_add_loop(_, _, _, _, _)
(* u[i] = lo_prod; k = hi_prod + (lo_prod < k), and the next place *)
multiply_add_store(u, m, x, i, k, hi_prod, lo_prod) ==
    multiply_add_loop([u EXCEPT ![i + 1] = lo_prod], m, x, i + 1,
                      Add32(hi_prod, U32(B2N(Lt32(lo_prod, k)))))

multiply_add_prod(u, m, x, i, k, pr) ==
    multiply_add_store(u, m, x, i, k, pr.z_hi, Add32(pr.z_lo, k))

multiply_add_loop(u, m, x, i, k) ==
    IF i < m
    THEN multiply_add_prod(u, m, x, i, k, mul_32_by_32(u[i + 1], x))
    ELSE IF ~IsZero32(k) THEN Append(u, k) ELSE u

(* Multiply m-place integer u by x and add y to it; the new size is the *)
(* length of the result.                                                *)
multiply_add(u, m, x, y) == multiply_add_loop(u, m, x, 0, y)

pow10s == <<1000000000, 10, 100, 1000, 10000, 100000, 1000000, 10000000,
            100000000>>

RECURSIVE from_string_loop(_, _, _, _, _, _)
from_string_loop(n, str, i, chunk, u, err) ==
    IF i <= n
    THEN LET c  == str[i]
             e  == IF c >= Char0 /\ c <= Char0 + 9 THEN NoErr
                   ELSE "*str >= '0' && *str <= '9'"
             ch == chunk * 10 + c - Char0
         IN  IF e # NoErr THEN [err |-> FirstErr(err, e), u |-> u]
             ELSE IF i % 9 = 0 \/ i = n
             THEN from_string_loop(n, str, i + 1, 0,
                                   multiply_add(u, Len(u), U32(pow10s[(i % 9) + 1]),
                                                U32(ch)),
                                   err)
             ELSE from_string_loop(n, str, i + 1, ch, u, err)
    ELSE [err |-> err, u |-> u]

(* Convert n-character decimal string str into integer u. *)
from_string(n, str) == from_string_loop(n, str, 1, 0, <<>>, NoErr)

RECURSIVE skip_leading_zeros(_, _)
skip_leading_zeros(n, v) ==
    IF n # 0 /\ v[n] = 0 THEN skip_leading_zeros(n - 1, v) ELSE n

(* for (i = 0; (n != 0 && i < 4) || k; i++) { *s++ = '0' + (k % 10); k /= 10; } *)
RECURSIVE emit_digits_unpadded(_, _, _, _)
(* emit_digits without the padding of the inner groups *)
emit_digits_unpadded(n, k, i, s) ==
    IF k # 0
    THEN emit_digits_unpadded(n, k \div 10, i + 1, Append(s, Char0 + (k % 10)))
    ELSE s

RECURSIVE emit_digits(_, _, _, _)
emit_digits(n, k, i, s) ==
    IF (n # 0 /\ i < 4) \/ k # 0
    THEN emit_digits(n, k \div 10, i + 1, Append(s, Char0 + (k % 10)))
    ELSE s

RECURSIVE to_string_loop(_, _, _, _)
(* the digits of the group k, after the leading zeros of v were skipped *)
to_string_emit(n, v, k, s, err) ==
    to_string_loop(n, v, emit_digits(n, k, 0, s), err)

to_string_group(n, v, k, s, err) ==
    to_string_emit(skip_leading_zeros(n, v), v, k, s, err)

(* short_division(n, v, 10000, v, &k) has left sd *)
to_string_divided(n, v, s, err, sd) ==
    IF sd.err # NoErr THEN [err |-> sd.err, s |-> s]
    ELSE to_string_group(n, [i \in 1..Len(v) |-> IF i <= n THEN sd.q[i] ELSE v[i]],
                         sd.r, s, err)

to_string_loop(n, v, s, err) ==
    IF n # 0
    THEN to_string_divided(n, v, s, err, short_division(n, v, 10000))
    ELSE [err |-> err, s |-> s]

Reverse(s) == [i \in 1..Len(s) |-> s[Len(s) + 1 - i]]

to_string_reversed(r) == [err |-> r.err, s |-> Reverse(r.s)]

to_string_scratch(n, v) ==
    IF n = 0 THEN [err |-> NoErr, s |-> <<Char0>>]
    ELSE to_string_reversed(to_string_loop(n, v, <<>>, NoErr))

to_string_copy(n, v) == to_string_scratch(skip_leading_zeros(n * 2, v), v)

(* Turn n-place integer u into decimal string str. *)
to_string(n, u) == to_string_copy(n, u32_to_u16(n, u))

(* ---------------------------------------------------------------------- *)
(* The signed value: struct bigint_t { length; negative; data[] }.        *)
(* An operation yields [err, v]: err is NoErr and v the value returned,   *)
(* or err is the assertion that failed (the process aborts, v is unused). *)
(* ---------------------------------------------------------------------- *)

Bigint(n, neg, d) == [length |-> n, negative |-> neg, data |-> d]

NoValue == Bigint(0, FALSE, <<>>)

Ret(v) == [err |-> NoErr, v |-> v]

Abort(msg) == [err |-> msg, v |-> NoValue]

RECURSIVE strip_leading_zeros(_, _)
strip_leading_zeros(n, u) ==
    IF n > 0 /\ IsZero32(u[n]) THEN strip_leading_zeros(n - 1, u) ELSE n

(* Strip leading zeros. A bigint_t will never contain leading zeros. *)
bigint_create(n, u, negative) ==
    LET n2 == strip_leading_zeros(n, u)
    IN  IF n2 = 0 THEN Bigint(0, FALSE, <<>>)
        ELSE Bigint(n2, negative, SubSeq(u, 1, n2))

(* return bigint_create(u_length, u, negative), u what from_string left *)
(* in uint32_t u[n / 9 + 1]                                             *)
bigint_create_from(n, negative, fs) ==
    IF fs.err # NoErr THEN Abort(fs.err)
    ELSE IF Len(fs.u) > (n \div 9) + 1 THEN Abort("u[n / 9 + 1] overrun")
    ELSE Ret(bigint_create(Len(fs.u), fs.u, negative))

bigint_create_str(n, str) ==
    IF n <= 0 THEN Abort("Empty string is not a valid number.")
    ELSE IF str[1] # CharMinus
    THEN bigint_create_from(n, FALSE, from_string(n, str))
    ELSE IF n <= 1 THEN Abort("Just '-' is not a valid number.")
    ELSE bigint_create_from(n, TRUE, from_string(n - 1, SubSeq(str, 2, n)))

bigint_max_stringlen(x) ==
    IF x.length = 0 THEN 1
    ELSE x.length * 10 + B2N(x.negative)

(* The string written at str, from its first character (the '-' when one *)
(* is written); the assertion looks at the part after the '-'.           *)
bigint_tostring_written(x, ts) ==
    [err |-> FirstErr(ts.err,
                      IF Len(ts.s) <= bigint_max_stringlen(x) THEN NoErr
                      ELSE "strlen(str) <= bigint_max_stringlen(x)"),
     str |-> (IF x.negative THEN <<CharMinus>> ELSE <<>>) \o ts.s]

bigint_tostring(x) == bigint_tostring_written(x, to_string(x.length, x.data))

PadTo(n, y) == [i \in 1..n |-> IF i <= Len(y) THEN y[i] ELSE Zero32]

add(x_len, x, y_len, y) ==
    LET xl == IF x_len < y_len THEN y_len ELSE x_len
        xx == IF x_len < y_len THEN y ELSE x
        yy == IF x_len < y_len THEN x ELSE y
        a  == algorithm_a(xl, xx, PadTo(xl, yy))
    IN  [err |-> a.err, v |-> bigint_create(xl + 1, a.w, FALSE)]

WithNegative(r, neg) ==
    IF r.err # NoErr THEN r ELSE [r EXCEPT !.v.negative = neg]

(* x - y for x >= y: the body of sub after its first test *)
sub_ge(x_len, x, y_len, y) ==
    IF x_len < y_len THEN Abort("x_len >= y_len")
    ELSE LET s == algorithm_s(x_len, x, PadTo(x_len, y))
         IN  [err |-> s.err, v |-> bigint_create(x_len, s.w, FALSE)]

sub(x_len, x, y_len, y) ==
    IF cmp(x_len, x, y_len, y) < 0
    THEN (* x - y = -(y - x) *)
         WithNegative(sub_ge(y_len, y, x_len, x), TRUE)
    ELSE sub_ge(x_len, x, y_len, y)

bigint_add(x, y) ==
    IF x.negative /\ y.negative
    THEN WithNegative(add(x.length, x.data, y.length, y.data), TRUE)
    ELSE IF x.negative
    THEN sub(y.length, y.data, x.length, x.data)
    ELSE IF y.negative
    THEN sub(x.length, x.data, y.length, y.data)
    ELSE add(x.length, x.data, y.length, y.data)

bigint_sub(x, y) ==
    IF x.negative /\ y.negative
    THEN sub(y.length, y.data, x.length, x.data)
    ELSE IF x.negative
    THEN WithNegative(add(x.length, x.data, y.length, y.data), TRUE)
    ELSE IF y.negative
    THEN add(x.length, x.data, y.length, y.data)
    ELSE sub(x.length, x.data, y.length, y.data)

bigint_mul(x, y) ==
    LET w == algorithm_m(x.length, y.length, x.data, y.data)
    IN  [err |-> w.err,
         v   |-> bigint_create(x.length + y.length, w.w,
                               x.negative # y.negative)]

divrem_result(x_len, y_len, remainder, d) ==
    IF d.err # NoErr THEN Abort(d.err)
    ELSE IF remainder THEN Ret(bigint_create(y_len, d.r, FALSE))
    ELSE Ret(bigint_create(x_len - y_len + 1, d.q, FALSE))

divrem(x_len, x, y_len, y, remainder) ==
    IF x_len < y_len THEN Abort("x_len >= y_len")
    ELSE divrem_result(x_len, y_len, remainder,
                       algorithm_d_wrapper(x_len - y_len, y_len, x, y))

(* bigint_div returning zero whenever x is not longer than y *)
bigint_div_le(x, y) ==
    IF x.length <= y.length
    THEN Ret(bigint_create(0, <<>>, FALSE))
    ELSE WithNegative(divrem(x.length, x.data, y.length, y.data, FALSE),
                      x.negative # y.negative)

bigint_div(x, y) ==
    IF x.length < y.length
    THEN Ret(bigint_create(0, <<>>, FALSE))
    ELSE WithNegative(divrem(x.length, x.data, y.length, y.data, FALSE),
                      x.negative # y.negative)

(* bigint_rem giving the remainder the negative flag of the divisor *)
bigint_rem_sign_of_divisor(x, y) ==
    WithNegative(IF x.length < y.length
                 THEN Ret(bigint_create(x.length, x.data, FALSE))
                 ELSE divrem(x.length, x.data, y.length, y.data, TRUE),
                 y.negative)

bigint_rem(x, y) ==
    WithNegative(IF x.length < y.length
                 THEN Ret(bigint_create(x.length, x.data, FALSE))
                 ELSE divrem(x.length, x.data, y.length, y.data, TRUE),
                 x.negative)

bigint_neg(x) == bigint_create(x.length, x.data, ~x.negative)

bigint_cmp(x, y) ==
    IF x.negative # y.negative
    THEN (IF x.negative THEN -1 ELSE 1)
    ELSE IF x.negative
    THEN cmp(y.length, y.data, x.length, x.data)
    ELSE cmp(x.length, x.data, y.length, y.data)

bigint_is_zero(x) == x.length = 0

(* ---------------------------------------------------------------------- *)
(* The integer a value stands for (I3), as a reference: a sign and a      *)
(* magnitude in base 256, little-endian, without leading zeros, with its  *)
(* own plain arithmetic.  Nothing below this line is used by the model    *)
(* of the code above.                                                     *)
(* ---------------------------------------------------------------------- *)

RECURSIVE NStrip(_)
NStrip(a) ==
    IF Len(a) > 0 /\ a[Len(a)] = 0 THEN NStrip(SubSeq(a, 1, Len(a) - 1)) ELSE a

LimbBytes(l) == <<l[1] % 256, l[1] \div 256, l[2] % 256, l[2] \div 256>>

RECURSIVE BytesOf(_)
BytesOf(d) == IF d = <<>> THEN <<>> ELSE LimbBytes(Head(d)) \o BytesOf(Tail(d))

NAt(a, i) == IF i <= Len(a) THEN a[i] ELSE 0

NMax(m, n) == IF m >= n THEN m ELSE n

RECURSIVE NAddFrom(_, _, _, _)
NAddFrom(a, b, i, carry) ==
    IF i > NMax(Len(a), Len(b))
    THEN (IF carry = 0 THEN <<>> ELSE <<carry>>)
    ELSE LET t == NAt(a, i) + NAt(b, i) + carry
         IN  <<t % 256>> \o NAddFrom(a, b, i + 1, t \div 256)

NAdd(a, b) == NStrip(NAddFrom(a, b, 1, 0))

(* a - b for a >= b *)
RECURSIVE NSubFrom(_, _, _, _)
NSubFrom(a, b, i, borrow) ==
    IF i > Len(a) THEN <<>>
    ELSE LET t == a[i] - NAt(b, i) - borrow
         IN  <<(t + 256) % 256>> \o NSubFrom(a, b, i + 1, IF t < 0 THEN 1 ELSE 0)

NSub(a, b) == NStrip(NSubFrom(a, b, 1, 0))

RECURSIVE NScaleFrom(_, _, _, _)
NScaleFrom(a, d, i, carry) ==
    IF i > Len(a) THEN (IF carry = 0 THEN <<>> ELSE <<carry>>)
    ELSE LET t == a[i] * d + carry
         IN  <<t % 256>> \o NScaleFrom(a, d, i + 1, t \div 256)

RECURSIVE NMul(_, _)
NMul(a, b) ==
    IF b = <<>> \/ a = <<>> THEN <<>>
    ELSE NAdd(NStrip(NScaleFrom(a, Head(b), 1, 0)),
              NStrip(<<0>> \o NMul(a, Tail(b))))

RECURSIVE NLessFrom(_, _, _)
NLessFrom(a, b, i) ==
    IF i = 0 THEN FALSE
    ELSE IF a[i] # b[i] THEN a[i] < b[i]
    ELSE NLessFrom(a, b, i - 1)

(* a < b, for magnitudes without leading zeros *)
NLess(a, b) ==
    IF Len(a) # Len(b) THEN Len(a) < Len(b) ELSE NLessFrom(a, b, Len(a))

Z(neg, mag) == [neg |-> neg /\ mag # <<>>, mag |-> mag]

(* I3: the represented integer is (negative ? -1 : +1) * sum mag[i] 2^(32 i) *)
Val(v) == Z(v.negative, NStrip(BytesOf(v.data)))

ZNeg(p) == Z(~p.neg, p.mag)

ZAdd(p, q) ==
    IF p.neg = q.neg THEN Z(p.neg, NAdd(p.mag, q.mag))
    ELSE IF NLess(p.mag, q.mag) THEN Z(q.neg, NSub(q.mag, p.mag))
    ELSE Z(p.neg, NSub(p.mag, q.mag))

ZSub(p, q) == ZAdd(p, ZNeg(q))

ZMul(p, q) == Z(p.neg # q.neg, NMul(p.mag, q.mag))

ZSign(p) == IF p.mag = <<>> THEN 0 ELSE IF p.neg THEN -1 ELSE 1

(* ---------------------------------------------------------------------- *)
(* The calculator: the tokenizer and the recursive-descent parser.        *)
(* A process record s carries what the functions read and write while one *)
(* line is evaluated: the unread standard input, current_token, the value *)
(* the last function returned (ret, null for expr's NULL), what error()   *)
(* wrote, and how the process ended if it did (halt: "exit" from error(), *)
(* "abort" from a failed assertion, named in failed).  rhs lists the      *)
(* right operands of '/' as factor() returned them, divs the divisors     *)
(* handed to bigint_div, both in order.                                   *)
(* ---------------------------------------------------------------------- *)

EOF == -1

CharTab == 9

CharNewline == 10

CharSpace == 32

CharLP == 40

CharRP == 41

CharStar == 42

CharPlus == 43

CharSlash == 47

BUFFER_SIZE == 100 * 1024

(* the characters of the inputs below, as text and as character codes *)
CharTable ==
    {<<"\t", CharTab>>, <<"\n", CharNewline>>, <<" ", CharSpace>>,
     <<"(", CharLP>>, <<")", CharRP>>, <<"*", CharStar>>, <<"+", CharPlus>>,
     <<"-", CharMinus>>, <<"/", CharSlash>>, <<"0", Char0>>,
     <<"3", Char0 + 3>>, <<"7", Char0 + 7>>, <<"x", 120>>}

Ord(ch) == (CHOOSE p \in CharTable : p[1] = ch)[2]

(* what %c writes for the character c *)
Chr(c) ==
    IF \E p \in CharTable : p[2] = c
    THEN (CHOOSE p \in CharTable : p[2] = c)[1]
    ELSE "?"

Token(kind, value) == [kind |-> kind, value |-> value]

Proc(input, tok) ==
    [stdin |-> input, tok |-> tok, ret |-> NoValue, null |-> FALSE,
     halt |-> "", failed |-> "", stderr |-> <<>>, rhs |-> <<>>, divs |-> <<>>]

Running(s) == s.halt = ""

error(s, msg) ==
    [s EXCEPT !.halt = "exit",
              !.stderr = @ \o <<"error: ">> \o msg \o <<"\n">>]

assert_fail(s, msg) == [s EXCEPT !.halt = "abort", !.failed = msg]

(* x = f(...), for a library function f that returned r or aborted *)
Returned(s, r) ==
    IF r.err # NoErr THEN assert_fail(s, r.err) ELSE [s EXCEPT !.ret = r.v]

getchar(input) == IF input = <<>> THEN EOF ELSE Head(input)

AfterGetchar(input) == IF input = <<>> THEN <<>> ELSE Tail(input)

ungetc(c, input) == IF c = EOF THEN input ELSE <<c>> \o input

(* do { c = getchar(); } while (c == ' ' || c == '\t'); *)
RECURSIVE skip_blanks(_)
skip_blanks(input) ==
    IF input # <<>> /\ Head(input) \in {CharSpace, CharTab}
    THEN skip_blanks(Tail(input))
    ELSE input

SetKind(s, kind) == [s EXCEPT !.tok.kind = kind]

(* current_token.kind = NUM;                                  *)
(* current_token.value = bigint_create_str(len, buffer), in r *)
number_token(s, r) ==
    IF r.err # NoErr THEN assert_fail(SetKind(s, "NUM"), r.err)
    ELSE [s EXCEPT !.tok = Token("NUM", r.v)]

(* the number at c, the characters after c still unread in s.stdin *)
RECURSIVE scan_number(_, _, _)
scan_number(s, c, buffer) ==
    IF c >= Char0 /\ c <= Char0 + 9
    THEN IF Len(buffer) = BUFFER_SIZE
         THEN error(s, <<"number too long!">>)
         ELSE scan_number([s EXCEPT !.stdin = AfterGetchar(@)],
                          getchar(s.stdin), Append(buffer, c))
    ELSE IF Len(buffer) > 0
    THEN number_token([s EXCEPT !.stdin = ungetc(c, @)],
                      bigint_create_str(Len(buffer), buffer))
    ELSE error(s, <<"unexpected character: '", Chr(c), "'">>)

next_token_switch(s, c) ==
    IF c = CharPlus THEN SetKind(s, "ADD")
    ELSE IF c = CharMinus THEN SetKind(s, "SUB")
    ELSE IF c = CharStar THEN SetKind(s, "MUL")
    ELSE IF c = CharSlash THEN SetKind(s, "DIV")
    ELSE IF c = CharLP THEN SetKind(s, "LP")
    ELSE IF c = CharRP THEN SetKind(s, "RP")
    ELSE IF c = CharNewline THEN SetKind(s, "EOL")
    ELSE IF c = EOF THEN SetKind(s, "END")
    ELSE scan_number(s, c, <<>>)

next_token_read(s, input) ==
    next_token_switch([s EXCEPT !.stdin = AfterGetchar(input)], getchar(input))

next_token(s) ==
    IF ~Running(s) THEN s
    ELSE IF s.tok.kind = "END"
    THEN assert_fail(s, "Can't get token after END!")
    ELSE next_token_read(s, skip_blanks(s.stdin))

(* ---- the parser: expr, sum, term, factor ---- *)

RECURSIVE sum(_), sum_loop(_), term(_), term_loop(_), factor(_)

(* res = bigint_neg(x), x what factor() returned *)
factor_neg(s) ==
    IF Running(s) THEN [s EXCEPT !.ret = bigint_neg(s.ret)] ELSE s

(* after res = sum(): the ')' and the token after it *)
factor_paren(s) ==
    IF ~Running(s) THEN s
    ELSE IF s.tok.kind # "RP" THEN error(s, <<"expected ')'">>)
    ELSE next_token(s)

factor(s) ==
    IF ~Running(s) THEN s
    ELSE IF s.tok.kind = "SUB" THEN factor_neg(factor(next_token(s)))
    ELSE IF s.tok.kind = "LP" THEN factor_paren(sum(next_token(s)))
    ELSE IF s.tok.kind = "NUM"
    THEN next_token([s EXCEPT !.ret = s.tok.value])
    ELSE error(s, <<"expected '-', number or '('">>)

(* t = bigint_mul(x, y); x = t, with y what factor() returned *)
term_mul(xv, s) ==
    IF Running(s) THEN term_loop(Returned(s, bigint_mul(xv, s.ret))) ELSE s

(* the same test with the call of error() left out *)
term_div_unchecked(xv, s) ==
    term_loop(Returned([s EXCEPT !.divs = Append(@, s.ret)],
                       bigint_div(xv, s.ret)))

(* if (bigint_is_zero(y)) error(...); t = bigint_div(x, y); x = t *)
term_div_checked(xv, s) ==
    IF bigint_is_zero(s.ret) THEN error(s, <<"division by zero!">>)
    ELSE term_loop(Returned([s EXCEPT !.divs = Append(@, s.ret)],
                            bigint_div(xv, s.ret)))

(* y = factor() has returned in s, for the right operand of a '/' *)
term_div(xv, s) ==
    IF Running(s)
    THEN term_div_checked(xv, [s EXCEPT !.rhs = Append(@, s.ret)])
    ELSE s

term_loop(s) ==
    IF ~Running(s) THEN s
    ELSE IF s.tok.kind = "MUL" THEN term_mul(s.ret, factor(next_token(s)))
    ELSE IF s.tok.kind = "DIV" THEN term_div(s.ret, factor(next_token(s)))
    ELSE s

term(s) == term_loop(factor(s))

sum_add(xv, s) ==
    IF Running(s) THEN sum_loop(Returned(s, bigint_add(xv, s.ret))) ELSE s

sum_sub(xv, s) ==
    IF Running(s) THEN sum_loop(Returned(s, bigint_sub(xv, s.ret))) ELSE s

sum_loop(s) ==
    IF ~Running(s) THEN s
    ELSE IF s.tok.kind = "ADD" THEN sum_add(s.ret, term(next_token(s)))
    ELSE IF s.tok.kind = "SUB" THEN sum_sub(s.ret, term(next_token(s)))
    ELSE s

sum(s) == sum_loop(term(s))

expr_eol(s) ==
    IF ~Running(s) THEN s
    ELSE IF s.tok.kind # "EOL" THEN error(s, <<"trailing character(s)">>)
    ELSE s

expr(s) ==
    IF ~Running(s) THEN s
    ELSE IF s.tok.kind = "END" THEN [s EXCEPT !.null = TRUE]
    ELSE expr_eol(sum(s))

(* bigint_print: char str[bigint_max_stringlen(x) + 1]; bigint_tostring; *)
(* puts.  overrun: the string and its terminator do not fit in str.      *)
print_str(xv, t) ==
    [err |-> t.err,
     overrun |-> Len(t.str) > bigint_max_stringlen(xv),
     out |-> t.str \o <<CharNewline>>]

bigint_print(xv) == print_str(xv, bigint_tostring(xv))

(* ---------------------------------------------------------------------- *)
(* The library as a state machine: two values x and y that public         *)
(* operations returned, and the last operation applied to them.           *)
(* ---------------------------------------------------------------------- *)

VARIABLES x, y, op, res, c, out, gen, str,
          stdin, current_token, stdout, stderr, status, exit_status, failed,
          rhs, divs, wrote, typed

libvars == <<x, y, op, res, c, out, gen>>

calcvars ==
    <<stdin, current_token, stdout, stderr, status, exit_status, failed,
      rhs, divs, wrote, typed>>

(* algorithm_d_wrapper and algorithm_d taken step by step: the wrapper's *)
(* arguments u and v (dividend, divisor), its arrays u16, v16, q16 and  *)
(* v_zero, the lengths it calls algorithm_d with (call), algorithm_d's  *)
(* shift and j, what the last pass of the main loop went through (pass), *)
(* the wrapper's results q and r (quotient, remainder), the assertion   *)
(* that failed (fault), and where the run is (pc)                       *)
VARIABLES dividend, divisor, u16, v16, q16, v_zero, call, shift, j, pass,
          quotient, remainder, fault, pc

divvars ==
    <<dividend, divisor, u16, v16, q16, v_zero, call, shift, j, pass,
      quotient, remainder, fault, pc>>

vars == <<libvars, str, calcvars, divvars>>

MaxLen == 2

LimbSet == {<<0, 0>>, <<1, 0>>, <<65535, 0>>, <<65535, 65535>>}

SeedArrays == UNION {[1..n -> LimbSet] : n \in 0..MaxLen}

(* what bigint_create(n, u, negative) returns for the arrays above *)
SeedValues ==
    {bigint_create(Len(u), u, negative) : u \in SeedArrays, negative \in BOOLEAN}

NoRes == Ret(NoValue)

(* no value created, nothing applied *)
LibIdle ==
    /\ x = NoValue
    /\ y = NoValue
    /\ op = "none"
    /\ res = NoRes
    /\ c = 0
    /\ out = <<>>
    /\ gen = 0

NoPass == [j |-> -1, u |-> <<>>, qhat |-> Zero32, k |-> 0, addback |-> FALSE]

NoCall == [m |-> 0, n |-> 0]

(* before algorithm_d_wrapper has converted anything *)
WrapperEntry ==
    /\ u16 = <<>>
    /\ v16 = <<>>
    /\ q16 = <<>>
    /\ v_zero = 0
    /\ call = NoCall
    /\ shift = 0
    /\ j = -1
    /\ pass = NoPass
    /\ quotient = <<>>
    /\ remainder = <<>>
    /\ fault = NoErr

(* no division under way *)
DivIdle ==
    /\ dividend = <<>>
    /\ divisor = <<>>
    /\ WrapperEntry
    /\ pc = "idle"

(* the calculator before main() has read anything, on the input given *)
CalcStart(input) ==
    /\ typed = input
    /\ stdin = input
    /\ current_token = Token("ADD", NoValue)
    /\ stdout = <<>>
    /\ stderr = <<>>
    /\ status = "running"
    /\ exit_status = 0
    /\ failed = ""
    /\ rhs = <<>>
    /\ divs = <<>>
    /\ wrote = <<>>

Init ==
    /\ x \in SeedValues
    /\ y \in SeedValues
    /\ op = "create"
    /\ res = NoRes
    /\ c = 0
    /\ out = <<>>
    /\ gen = 0
    /\ str = <<>>
    /\ CalcStart(<<>>)
    /\ DivIdle

Returns(name, r) ==
    /\ op' = name
    /\ res' = r
    /\ c' = 0
    /\ out' = <<>>
    /\ UNCHANGED <<x, y, gen, str, calcvars, divvars>>

Add == Returns("add", bigint_add(x, y))

Sub == Returns("sub", bigint_sub(x, y))

Mul == Returns("mul", bigint_mul(x, y))

Div == Returns("div", bigint_div(x, y))

Rem == Returns("rem", bigint_rem(x, y))

Neg == Returns("neg", Ret(bigint_neg(x)))

Cmp ==
    /\ op' = "cmp"
    /\ c' = bigint_cmp(x, y)
    /\ res' = NoRes
    /\ out' = <<>>
    /\ UNCHANGED <<x, y, gen, str, calcvars, divvars>>

Tostring ==
    /\ op' = "tostring"
    /\ out' = bigint_tostring(x).str
    /\ res' = NoRes
    /\ c' = 0
    /\ UNCHANGED <<x, y, gen, str, calcvars, divvars>>

Next == Add \/ Sub \/ Mul \/ Div \/ Rem \/ Neg \/ Cmp \/ Tostring

Spec == Init /\ [][Next]_vars

(* The caller hands a returned value on as an operand (x = t in the      *)
(* calculator's sum and term).                                           *)
MaxFeed == 2

ChainLen == 1

ValueOps == {"add", "sub", "mul", "div", "rem", "neg"}

CanFeed == op \in ValueOps /\ res.err = NoErr /\ gen < MaxFeed

FeedX ==
    /\ CanFeed
    /\ x' = res.v
    /\ op' = "feed"
    /\ res' = NoRes
    /\ gen' = gen + 1
    /\ UNCHANGED <<y, c, out, str, calcvars, divvars>>

FeedY ==
    /\ CanFeed
    /\ y' = res.v
    /\ op' = "feed"
    /\ res' = NoRes
    /\ gen' = gen + 1
    /\ UNCHANGED <<x, c, out, str, calcvars, divvars>>

InitChain ==
    /\ x \in {v \in SeedValues : v.length <= ChainLen}
    /\ y \in {v \in SeedValues : v.length <= ChainLen}
    /\ op = "create"
    /\ res = NoRes
    /\ c = 0
    /\ out = <<>>
    /\ gen = 0
    /\ str = <<>>
    /\ CalcStart(<<>>)
    /\ DivIdle

NextChain == Next \/ FeedX \/ FeedY

SpecChain == InitChain /\ [][NextChain]_vars

(* ---------------------------------------------------------------------- *)
(* Decimal strings: bigint_create_str on a string, bigint_tostring on the *)
(* value it returned.                                                     *)
(* ---------------------------------------------------------------------- *)

MaxFill == 18

Dec(d) == [i \in 1..Len(d) |-> Char0 + d[i]]

Fill(d, n) == [i \in 1..n |-> Char0 + d]

Heads == {<<1>>, <<9>>, <<1, 0>>, <<4, 2>>}

Tails == {<<>>, <<0>>, <<1>>, <<0, 0, 0, 1>>, <<1, 0, 0, 0>>, <<9, 9, 9, 9>>}

(* digit strings without a leading zero: a head, a run of one digit, a  *)
(* tail                                                                 *)
DigitStrings ==
    {Dec(h) \o Fill(d, n) \o Dec(t) :
         h \in Heads, d \in {0, 9}, n \in 0..MaxFill, t \in Tails}

(* the strings -?[0-9]+ without leading zeros, "0" among them, not "-0" *)
DecimalStrings ==
    {Dec(<<0>>)} \cup DigitStrings \cup {<<CharMinus>> \o s : s \in DigitStrings}

InitStr ==
    /\ str \in DecimalStrings
    /\ LibIdle
    /\ CalcStart(<<>>)
    /\ DivIdle

CreateStr ==
    /\ op = "none"
    /\ op' = "create_str"
    /\ res' = bigint_create_str(Len(str), str)
    /\ UNCHANGED <<x, y, c, out, gen, str, calcvars, divvars>>

TostringRes ==
    /\ op = "create_str"
    /\ res.err = NoErr
    /\ op' = "tostring_str"
    /\ out' = bigint_tostring(res.v).str
    /\ UNCHANGED <<x, y, c, res, gen, str, calcvars, divvars>>

NextStr == CreateStr \/ TostringRes

SpecStr == InitStr /\ [][NextStr]_vars

(* ---------------------------------------------------------------------- *)
(* The calculator as a state machine: one action per turn of the loop of  *)
(* main(), on the standard input given at the start.                      *)
(* ---------------------------------------------------------------------- *)

MaxShort == 3

Alphabet == {p[2] : p \in CharTable}

(* every input of at most MaxShort characters *)
ShortInputs == UNION {[1..n -> Alphabet] : n \in 0..MaxShort}

Text(t) == [i \in 1..Len(t) |-> Ord(t[i])]

Nums == {<<"0">>, <<"3">>, <<"7">>}

Ops == {"+", "-", "*", "/"}

Signed == Nums \cup {<<"-">> \o a : a \in Nums}

Binary(A, B) == {a \o <<o>> \o b : a \in A, o \in Ops, b \in B}

Factors == Signed \cup {<<"(">> \o e \o <<")">> : e \in Nums \cup Binary(Signed, Signed)}

Lefts == Signed \cup Binary(Nums, Nums)

(* one expression and its newline *)
Lines == {e \o <<"\n">> : e \in Factors \cup Binary(Lefts, Factors)}

SmallLines == {e \o <<"\n">> : e \in Nums \cup Binary(Nums, Nums)}

Inputs ==
    ShortInputs
        \cup {Text(l) : l \in Lines}
        \cup {Text(k \o l) : k \in SmallLines, l \in SmallLines}

InitCalc ==
    /\ \E input \in Inputs : CalcStart(input)
    /\ LibIdle
    /\ str = <<>>
    /\ DivIdle

(* next_token(); x = expr(); of a turn of the loop *)
Turn == expr(next_token(Proc(stdin, current_token)))

Outcome(s, p) ==
    IF ~Running(s) THEN "halt"
    ELSE IF s.null THEN "break"
    ELSE IF p.err # NoErr THEN "halt"
    ELSE IF p.overrun THEN "overrun"
    ELSE "print"

OutcomeOf(s) == Outcome(s, bigint_print(s.ret))

Evaluated(s) ==
    /\ stdin' = s.stdin
    /\ current_token' = s.tok
    /\ rhs' = s.rhs
    /\ divs' = s.divs
    /\ UNCHANGED <<libvars, str, typed, divvars>>

(* bigint_print(x); free(x); printf("\n"); *)
Writes(s, p) ==
    /\ Evaluated(s)
    /\ stdout' = stdout \o p.out \o <<CharNewline>>
    /\ wrote' = p.out \o <<CharNewline>>
    /\ UNCHANGED <<stderr, status, exit_status, failed>>

Aborts(s, msg) ==
    /\ Evaluated(s)
    /\ status' = "abort"
    /\ failed' = msg
    /\ wrote' = <<>>
    /\ UNCHANGED <<stdout, stderr, exit_status>>

WriteTurn(s) ==
    /\ OutcomeOf(s) = "print"
    /\ Writes(s, bigint_print(s.ret))

(* the string and its terminator overrun str[]: the process goes on as *)
(* if nothing happened, or is stopped                                  *)
OverrunTurn(s) ==
    /\ OutcomeOf(s) = "overrun"
    /\ \E stopped \in BOOLEAN :
           IF stopped THEN Aborts(s, "str[bigint_max_stringlen(x) + 1] overrun")
           ELSE Writes(s, bigint_print(s.ret))

(* if (x == NULL) break; return 0; *)
BreakTurn(s) ==
    /\ OutcomeOf(s) = "break"
    /\ Evaluated(s)
    /\ status' = "exit"
    /\ exit_status' = 0
    /\ wrote' = <<>>
    /\ UNCHANGED <<stdout, stderr, failed>>

HaltOf(s, p) ==
    IF Running(s) THEN assert_fail(s, p.err) ELSE s

Halts(h) ==
    /\ Evaluated(h)
    /\ status' = h.halt
    /\ exit_status' = (IF h.halt = "exit" THEN 1 ELSE 0)
    /\ failed' = h.failed
    /\ stderr' = stderr \o h.stderr
    /\ wrote' = <<>>
    /\ UNCHANGED stdout

(* error() was called, or an assertion failed *)
HaltTurn(s) ==
    /\ OutcomeOf(s) = "halt"
    /\ Halts(HaltOf(s, bigint_print(s.ret)))

MainPrint == status = "running" /\ WriteTurn(Turn)

MainOverrun == status = "running" /\ OverrunTurn(Turn)

MainBreak == status = "running" /\ BreakTurn(Turn)

MainHalt == status = "running" /\ HaltTurn(Turn)

NextCalc == MainPrint \/ MainOverrun \/ MainBreak \/ MainHalt

SpecCalc == InitCalc /\ [][NextCalc]_vars

(* ---------------------------------------------------------------------- *)
(* algorithm_d_wrapper step by step: the conversion to half-limbs and the *)
(* call, algorithm_d's normalization, one step for every pass of its main *)
(* loop, the unnormalization, and the wrapper's padding and conversion    *)
(* back.  The dividend and the divisor are what divrem hands over: the    *)
(* data of two values, the dividend at least as long as the divisor, and  *)
(* the divisor empty when the value is zero.                              *)
(* ---------------------------------------------------------------------- *)

MaxPlaces == 2

DivLimbSet ==
    {<<0, 0>>, <<1, 0>>, <<65535, 0>>, <<65535, 1>>, <<0, 32768>>,
     <<65535, 65535>>}

Operands ==
    {d \in UNION {[1..len -> DivLimbSet] : len \in 1..MaxPlaces} :
        ~IsZero32(d[Len(d)])}

InitDiv ==
    /\ LibIdle
    /\ str = <<>>
    /\ CalcStart(<<>>)
    /\ dividend \in Operands
    /\ divisor \in Operands \cup {<<>>}
    /\ Len(dividend) >= Len(divisor)
    /\ WrapperEntry
    /\ pc = "wrapper"

(* the m and n of algorithm_d_wrapper(m, n, u, v, q, r) *)
wrapper_n == Len(divisor)

wrapper_m == Len(dividend) - Len(divisor)

DivKeeps == UNCHANGED <<libvars, str, calcvars, dividend, divisor>>

(* u32_to_u16(m + n, u, u16); u32_to_u16(n, v, v16); v_zero = ...; and   *)
(* the call algorithm_d(m * 2 + v_zero, n * 2 - v_zero, u16, v16, q16)   *)
WrapperAsserts ==
    IF wrapper_n <= 0 THEN "Division by zero!"
    ELSE IF IsZero32(divisor[wrapper_n]) THEN "v has leading zero!"
    ELSE NoErr

DivConvert ==
    /\ pc = "wrapper"
    /\ fault = NoErr
    /\ fault' = WrapperAsserts
    /\ IF fault' # NoErr
       THEN UNCHANGED <<u16, v16, q16, v_zero, call, pc>>
       ELSE /\ u16' = u32_to_u16(wrapper_m + wrapper_n, dividend)
                          \o <<Unwritten>>
            /\ v16' = u32_to_u16(wrapper_n, divisor)
            /\ q16' = [i \in 1..((wrapper_m + 1) * 2) |-> Unwritten]
            /\ v_zero' = wrapper_v_zero(wrapper_n, v16')
            /\ call' = wrapper_call(wrapper_m, wrapper_n, v_zero')
            /\ pc' = "algorithm_d"
    /\ UNCHANGED <<shift, j, pass, quotient, remainder>>
    /\ DivKeeps

(* algorithm_d with n = 1: short_division(m + n, u, v[0], q, &u[0]) *)
ShortDivided(r) ==
    /\ u16' = r.u
    /\ q16' = r.q
    /\ fault' = r.err
    /\ pc' = "pad"
    /\ UNCHANGED <<v16, shift, j>>

(* u[m + n] = 0; shift = leading_zeros(v[n-1]); the two shift_left *)
Normalized(sh, sv, su) ==
    /\ shift' = sh
    /\ v16' = sv.u
    /\ u16' = su.u
    /\ fault' = FirstErr(sv.err, su.err)
    /\ j' = call.m
    /\ pc' = "loop"
    /\ UNCHANGED q16

NormalizedBy(sh) ==
    Normalized(sh,
               IF sh # 0 THEN shift_left(call.n, v16, sh) ELSE Unshifted(v16),
               IF sh # 0
               THEN shift_left(call.m + call.n + 1,
                               [u16 EXCEPT ![call.m + call.n + 1] = 0], sh)
               ELSE Unshifted([u16 EXCEPT ![call.m + call.n + 1] = 0]))

DivNormalize ==
    /\ pc = "algorithm_d"
    /\ fault = NoErr
    /\ IF call.n <= 0
       THEN fault' = "v must be greater than zero!"
                /\ UNCHANGED <<u16, v16, q16, shift, j, pc>>
       ELSE IF v16[call.n] = 0
       THEN fault' = "v must not have leading zeros!"
                /\ UNCHANGED <<u16, v16, q16, shift, j, pc>>
       ELSE IF call.n = 1
       THEN ShortDivided(algorithm_d_short(call.m, call.n, u16, q16,
                             short_division(call.m + call.n, u16, v16[1])))
       ELSE NormalizedBy(leading_zeros(v16[call.n]))
    /\ UNCHANGED <<v_zero, call, pass, quotient, remainder>>
    /\ DivKeeps

(* one pass of for (j = m; j >= 0; j--) *)
PassMade(ps) ==
    /\ u16' = ps.u
    /\ q16' = [q16 EXCEPT ![j + 1] = ps.qj]
    /\ pass' = [j |-> j, u |-> u16, qhat |-> ps.qhat, k |-> ps.k,
                addback |-> ps.addback]
    /\ j' = j - 1

DivPass ==
    /\ pc = "loop"
    /\ fault = NoErr
    /\ j >= 0
    /\ PassMade(algorithm_d_pass(call.n, u16, v16, j))
    /\ UNCHANGED <<v16, v_zero, call, shift, quotient, remainder, fault, pc>>
    /\ DivKeeps

Unnormalized(un) ==
    /\ u16' = un.u
    /\ fault' = un.err

(* if (shift) shift_right(n, u, shift); and the return to the wrapper *)
DivUnnormalize ==
    /\ pc = "loop"
    /\ fault = NoErr
    /\ j < 0
    /\ Unnormalized(IF shift # 0 THEN shift_right(call.n, u16, shift)
                    ELSE Unshifted(u16))
    /\ pc' = "pad"
    /\ UNCHANGED <<v16, q16, v_zero, call, shift, j, pass, quotient, remainder>>
    /\ DivKeeps

Converted(w) ==
    /\ quotient' = w.q
    /\ remainder' = w.r

(* the padding of u16 or q16, and u16_to_u32 of both *)
DivPad ==
    /\ pc = "pad"
    /\ fault = NoErr
    /\ u16' = (IF v_zero = 1 THEN [u16 EXCEPT ![wrapper_n * 2] = 0] ELSE u16)
    /\ q16' = (IF v_zero = 1 THEN q16
               ELSE [q16 EXCEPT ![(wrapper_m + 1) * 2] = 0])
    /\ Converted(wrapper_pad(wrapper_m, wrapper_n, v_zero,
                             [err |-> fault, u |-> u16, q |-> q16]))
    /\ pc' = "return"
    /\ UNCHANGED <<v16, v_zero, call, shift, j, pass, fault>>
    /\ DivKeeps

NextDiv ==
    DivConvert \/ DivNormalize \/ DivPass \/ DivUnnormalize \/ DivPad

SpecDiv == InitDiv /\ [][NextDiv]_vars

(* ---------------------------------------------------------------------- *)
(* Properties of the library.                                             *)
(* ---------------------------------------------------------------------- *)

One == Bigint(1, FALSE, <<U32(1)>>)

(* I1, I2: no zero most-significant limb, and zero is never negative *)
Canonical(v) ==
    /\ v.length = Len(v.data)
    /\ v.length > 0 => ~IsZero32(v.data[v.length])
    /\ v.length = 0 => ~v.negative

NonZeroDivisor == op \in {"div", "rem"} => ~bigint_is_zero(y)

(* C1: every value returned by a public operation (division and          *)
(* remainder with a non-zero divisor) on values returned by public       *)
(* operations has no zero most-significant limb, and is not negative     *)
(* when its magnitude is empty.                                          *)
C1_CanonicalForm ==
    /\ Canonical(x)
    /\ Canonical(y)
    /\ (op \in ValueOps /\ NonZeroDivisor /\ res.err = NoErr)
           => Canonical(res.v)

DivisionIdentity(xv, yv, q, r) ==
    /\ Val(xv) = ZAdd(ZMul(Val(q), Val(yv)), Val(r))
    /\ NLess(Val(r).mag, Val(yv).mag)
    /\ ZSign(Val(r)) \in {0, ZSign(Val(xv))}

DivisionPair(q, r) ==
    /\ q.err = NoErr
    /\ r.err = NoErr
    /\ DivisionIdentity(x, y, q.v, r.v)

TruncatedQuotient(xv, yv, q) ==
    /\ ~NLess(Val(xv).mag, NMul(Val(q).mag, Val(yv).mag))
    /\ NLess(Val(xv).mag, NMul(NAdd(Val(q).mag, <<1>>), Val(yv).mag))
    /\ Val(q).mag # <<>> => (q.negative = (xv.negative # yv.negative))

Truncates ==
    (op = "div" /\ ~bigint_is_zero(y))
        => res.err = NoErr /\ TruncatedQuotient(x, y, res.v)

C4_DecimalRoundTrip ==
    /\ op = "create_str" => res.err = NoErr
    /\ op = "tostring_str" =>
           /\ bigint_tostring(res.v).err = NoErr
           /\ out = str

(* a negative number of 24 digits, three limbs, with inner groups 0000   *)
(* and 0001, printed back                                                *)
C4_Witness ==
    /\ op = "tostring_str"
    /\ str = <<CharMinus>> \o Dec(<<1, 0>>) \o Fill(0, 18) \o Dec(<<0, 0, 0, 1>>)
    /\ res.v.length = 3
    /\ out = str

(* C5: the string bigint_tostring writes, with its '-', is never longer  *)
(* than bigint_max_stringlen of the value, for every value the public    *)
(* operations return.                                                    *)
C5_OutputLengthBound ==
    op = "tostring" => Len(out) <= bigint_max_stringlen(x)

(* C6: bigint_cmp(x, y) = -bigint_cmp(y, x), it is 0 exactly when x and  *)
(* y stand for the same integer, and it is the sign of the integer       *)
(* bigint_sub(x, y) stands for.                                          *)
C6_Comparison ==
    op = "cmp" =>
        /\ c = -bigint_cmp(y, x)
        /\ (c = 0) = (Val(x) = Val(y))
        /\ c = ZSign(Val(bigint_sub(x, y).v))

(* C7: bigint_add(x, y) stands for x + y, bigint_sub(x, y) stands for    *)
(* x - y and is the same value, magnitude and flag, as                   *)
(* bigint_add(x, bigint_neg(y)); x + 0 = x, x + (-x) = 0 and x - x = 0   *)
(* with a non-negative zero; no assertion of the kernels fails.          *)
C7_AddSub ==
    /\ op = "add" =>
           /\ res.err = NoErr
           /\ Val(res.v) = ZAdd(Val(x), Val(y))
           /\ bigint_is_zero(y) => Val(res.v) = Val(x)
           /\ y = bigint_neg(x) => res.v = Bigint(0, FALSE, <<>>)
    /\ op = "sub" =>
           /\ res.err = NoErr
           /\ Val(res.v) = ZSub(Val(x), Val(y))
           /\ res = bigint_add(x, bigint_neg(y))
           /\ y = x => res.v = Bigint(0, FALSE, <<>>)

(* C8: bigint_mul(x, y) stands for x * y, negative exactly when the      *)
(* product is non-zero and the flags of x and y differ; x*0 = 0,         *)
(* x*1 = x, x*y = y*x, (-x)*y = -(x*y); the assertion on the carry limb  *)
(* k of the schoolbook pass never fails.                                 *)
C8_Multiplication ==
    op = "mul" =>
        /\ res.err = NoErr
        /\ Val(res.v) = ZMul(Val(x), Val(y))
        /\ res.v.negative = (res.v.length > 0 /\ x.negative # y.negative)
        /\ bigint_is_zero(y) => bigint_is_zero(res.v)
        /\ y = One => Val(res.v) = Val(x)
        /\ res = bigint_mul(y, x)
        /\ Val(bigint_mul(bigint_neg(x), y).v) = ZNeg(Val(res.v))

(* a four-limb negative product of two-limb operands, one of them with a *)
(* zero limb                                                             *)
C8_Witness ==
    /\ op = "mul"
    /\ x.length = 2 /\ y.length = 2
    /\ IsZero32(y.data[1])
    /\ x.negative /\ ~y.negative
    /\ res.err = NoErr
    /\ res.v.length = 4
    /\ res.v.negative

(* C9: bigint_div(x, y) and bigint_rem(x, y) with y = 0 end in the       *)
(* division-by-zero failure and yield no value, for every x, zero        *)
(* included.                                                             *)
C9_DivisionByZero ==
    (op \in {"div", "rem"} /\ bigint_is_zero(y))
        => res = Abort("Division by zero!")

(* zero divided by zero *)
C9_Witness ==
    /\ op = "div"
    /\ bigint_is_zero(x)
    /\ bigint_is_zero(y)
    /\ res.err = "Division by zero!"

(* C10: whenever the right operand of a '/' evaluates to zero, the       *)
(* calculator writes "division by zero!" on standard error and exits     *)
(* with a non-zero status without calling bigint_div for it; bigint_div  *)
(* is only ever called with a non-zero divisor; nothing is written to    *)
(* standard output for that line.                                        *)
C10_CallerSideZeroCheck ==
    /\ \A i \in 1..Len(divs) : Val(divs[i]).mag # <<>>
    /\ (\E i \in 1..Len(rhs) : Val(rhs[i]).mag = <<>>) =>
           /\ Val(rhs[Len(rhs)]).mag = <<>>
           /\ divs = SubSeq(rhs, 1, Len(rhs) - 1)
           /\ status = "exit"
           /\ exit_status # 0
           /\ stderr = <<"error: ", "division by zero!", "\n">>
           /\ wrote = <<>>

(* the right operand is a parenthesised quotient that is zero with its  *)
(* negative flag set, as in 7/(-3/7): the inner division was made, the  *)
(* outer one was not                                                    *)
C10_Witness ==
    /\ status = "exit"
    /\ exit_status = 1
    /\ Len(rhs) = 2
    /\ ~bigint_is_zero(rhs[1])
    /\ bigint_is_zero(rhs[2])
    /\ rhs[2].negative
    /\ divs = <<rhs[1]>>
    /\ stderr = <<"error: ", "division by zero!", "\n">>
    /\ stdout = <<>>

(* ---------------------------------------------------------------------- *)
(* Properties of the calculator's output.  The value of a line is worked  *)
(* out here on the integers of TLA+, from the grammar alone:              *)
(*   expr = sum EOL | END      sum  = term (('+' | '-') term)*            *)
(*   term = factor (('*' | '/') factor)*                                  *)
(*   factor = '-' factor | '(' sum ')' | NUMBER                           *)
(* with blanks and tabs ignored between tokens and '/' truncating toward  *)
(* zero.  A line that divides by zero is not well formed.                 *)
(* ---------------------------------------------------------------------- *)

RefFail == [ok |-> FALSE, v |-> 0, rest |-> <<>>]

RefOk(v, rest) == [ok |-> TRUE, v |-> v, rest |-> rest]

RefIsDigit(ch) == ch >= Char0 /\ ch <= Char0 + 9

RefAbs(a) == IF a < 0 THEN -a ELSE a

RefQuot(a, b) ==
    IF (a < 0) # (b < 0) THEN -(RefAbs(a) \div RefAbs(b))
    ELSE RefAbs(a) \div RefAbs(b)

RECURSIVE RefSkip(_)
RefSkip(t) ==
    IF t # <<>> /\ Head(t) \in {CharSpace, CharTab} THEN RefSkip(Tail(t)) ELSE t

RefAt(t, ch) == t # <<>> /\ Head(t) = ch

RECURSIVE RefNumber(_, _)
RefNumber(acc, t) ==
    IF t # <<>> /\ RefIsDigit(Head(t))
    THEN RefNumber(acc * 10 + (Head(t) - Char0), Tail(t))
    ELSE RefOk(acc, t)

RECURSIVE RefSum(_), RefSumLoop(_, _), RefTerm(_), RefTermLoop(_, _),
          RefFactor(_)

RefNegate(r) == IF r.ok THEN RefOk(-r.v, r.rest) ELSE RefFail

RefClose(r) ==
    IF r.ok /\ RefAt(RefSkip(r.rest), CharRP)
    THEN RefOk(r.v, Tail(RefSkip(r.rest)))
    ELSE RefFail

RefFactorAt(t) ==
    IF RefAt(t, CharMinus) THEN RefNegate(RefFactor(Tail(t)))
    ELSE IF RefAt(t, CharLP) THEN RefClose(RefSum(Tail(t)))
    ELSE IF t # <<>> /\ RefIsDigit(Head(t)) THEN RefNumber(0, t)
    ELSE RefFail

RefFactor(t) == RefFactorAt(RefSkip(t))

RefMul(v, f) == IF f.ok THEN RefTermLoop(v * f.v, f.rest) ELSE RefFail

RefDiv(v, f) ==
    IF f.ok /\ f.v # 0 THEN RefTermLoop(RefQuot(v, f.v), f.rest) ELSE RefFail

RefTermAt(v, t) ==
    IF RefAt(t, CharStar) THEN RefMul(v, RefFactor(Tail(t)))
    ELSE IF RefAt(t, CharSlash) THEN RefDiv(v, RefFactor(Tail(t)))
    ELSE RefOk(v, t)

RefTermLoop(v, t) == RefTermAt(v, RefSkip(t))

RefTermFrom(f) == IF f.ok THEN RefTermLoop(f.v, f.rest) ELSE RefFail

RefTerm(t) == RefTermFrom(RefFactor(t))

RefAdd(v, f) == IF f.ok THEN RefSumLoop(v + f.v, f.rest) ELSE RefFail

RefSub(v, f) == IF f.ok THEN RefSumLoop(v - f.v, f.rest) ELSE RefFail

RefSumAt(v, t) ==
    IF RefAt(t, CharPlus) THEN RefAdd(v, RefTerm(Tail(t)))
    ELSE IF RefAt(t, CharMinus) THEN RefSub(v, RefTerm(Tail(t)))
    ELSE RefOk(v, t)

RefSumLoop(v, t) == RefSumAt(v, RefSkip(t))

RefSumFrom(f) == IF f.ok THEN RefSumLoop(f.v, f.rest) ELSE RefFail

RefSum(t) == RefSumFrom(RefTerm(t))

(* one line: a sum and its newline *)
RefEol(r) ==
    IF r.ok /\ RefAt(RefSkip(r.rest), CharNewline)
    THEN RefOk(r.v, Tail(RefSkip(r.rest)))
    ELSE RefFail

RefLine(t) == RefEol(RefSum(t))

RECURSIVE RefDigits(_)
RefDigits(n) ==
    IF n < 10 THEN <<Char0 + n>>
    ELSE RefDigits(n \div 10) \o <<Char0 + (n % 10)>>

(* the decimal representation of an integer *)
RefDecimal(v) == IF v < 0 THEN <<CharMinus>> \o RefDigits(-v) ELSE RefDigits(v)

RECURSIVE RefOutput(_, _)

RefOutputAfter(l, eol) ==
    IF ~l.ok THEN [ok |-> FALSE, out |-> <<>>]
    ELSE [RefOutput(l.rest, eol) EXCEPT !.out = RefDecimal(l.v) \o eol \o @]

(* what a run on the text t is to write: one value and eol a line; ok is *)
(* whether t is made of well-formed, newline-terminated lines only       *)
RefOutput(t, eol) ==
    IF RefSkip(t) = <<>> THEN [ok |-> TRUE, out |-> <<>>]
    ELSE RefOutputAfter(RefLine(t), eol)

Finished == status # "running"

CleanExit == status = "exit" /\ exit_status = 0

(* C11: on an input made of well-formed, newline-terminated lines only,  *)
(* the run ends with exit status 0 and standard output is then, line by  *)
(* line, the decimal representation of the line's value followed by one  *)
(* newline, and nothing else.                                            *)
C11_CalculatorOutput ==
    (Finished /\ RefOutput(typed, <<CharNewline>>).ok) =>
        /\ CleanExit
        /\ stdout = RefOutput(typed, <<CharNewline>>).out

ErrorExit == status = "exit" /\ exit_status # 0 /\ stderr # <<>>

(* the text ends inside a line: something other than blanks comes after  *)
(* the last newline                                                      *)
Unterminated(t) ==
    \E i \in 1..Len(t) :
        /\ t[i] \notin {CharSpace, CharTab, CharNewline}
        /\ \A i2 \in (i + 1)..Len(t) : t[i2] # CharNewline

HalfBytes(h) == <<h % 256, h \div 256>>

RECURSIVE HalvesBytes(_)
HalvesBytes(d) ==
    IF d = <<>> THEN <<>> ELSE HalfBytes(Head(d)) \o HalvesBytes(Tail(d))

(* the number the half-limbs a[from..to] stand for, least significant first *)
Places(a, from, to) == NStrip(HalvesBytes(SubSeq(a, from, to)))

(* the steps above come to what algorithm_d_wrapper gives in one piece *)
StepsAgree ==
    /\ fault # NoErr =>
           /\ divisor = <<>>
           /\ fault = algorithm_d_wrapper(wrapper_m, wrapper_n, dividend,
                                          divisor).err
    /\ pc = "return" =>
           [err |-> fault, q |-> quotient, r |-> remainder]
               = algorithm_d_wrapper(wrapper_m, wrapper_n, dividend, divisor)

PassDone == pc \in {"loop", "pad", "return"} /\ pass.j >= 0

(* the divisor of the main loop, normalized *)
PassV == Places(v16, 1, call.n)

(* u[j..j+n] before the last pass, and after it *)
PassBefore == Places(pass.u, pass.j + 1, pass.j + 1 + call.n)

PassAfter(u) == Places(u, pass.j + 1, pass.j + 1 + call.n)

PassQhat == NStrip(LimbBytes(pass.qhat))

(* qhat is the quotient digit of u[j..j+n] by v, or that digit plus one *)
DigitOrOneMore(U, V, Q) ==
    /\ NLess(U, NMul(NAdd(Q, <<1>>), V))
    /\ Q # <<>> => ~NLess(U, NMul(NSub(Q, <<1>>), V))

OneTooLarge(U, V, Q) == NLess(U, NMul(Q, V))

(* r = U - digit * V and 0 <= r < V *)
PartialRemainder(U, V, digit, r) ==
    /\ NAdd(NMul(NStrip(HalfBytes(digit)), V), r) = U
    /\ NLess(r, V)

(* C12: in every pass of algorithm_d's main loop (n >= 2, the top        *)
(* half-limb of v with its high bit set) the qhat the correction loop    *)
(* leaves is at most 2^16 - 1 and is the quotient digit of u[j..j+n] by  *)
(* v or one more; the borrow k left by multiply-and-subtract is 0 or 1   *)
(* and is non-zero exactly when qhat is one too large; then q[j] is      *)
(* qhat - 1, else qhat, and after the pass u[j..j+n] is the partial      *)
(* remainder u[j..j+n] - q[j] * v, which is at least 0 and less than v.  *)
C12_QuotientDigitEstimate ==
    (PassDone /\ pc = "loop" /\ j = pass.j - 1) =>
        /\ call.n >= 2
        /\ v16[call.n] > UINT16_MAX \div 2
        /\ pass.qhat[2] = 0
        /\ DigitOrOneMore(PassBefore, PassV, PassQhat)
        /\ pass.k \in {0, 1}
        /\ (pass.k # 0) = OneTooLarge(PassBefore, PassV, PassQhat)
        /\ pass.addback = (pass.k # 0)
        /\ q16[pass.j + 1] = pass.qhat[1] - pass.k
        /\ PartialRemainder(PassBefore, PassV, q16[pass.j + 1], PassAfter(u16))

(* a pass on a divisor of three half-limbs that had to be shifted, whose *)
(* corrected qhat was one too large: multiply-and-subtract left k = 1   *)
(* and the add back gave q[j] = qhat - 1                                 *)
C12_Witness ==
    /\ pc = "loop"
    /\ PassDone
    /\ call.n = 3
    /\ shift > 0
    /\ pass.qhat[1] > 0
    /\ pass.k = 1
    /\ pass.addback
    /\ q16[pass.j + 1] = pass.qhat[1] - 1

(* the top 32-bit limb of the divisor has a zero upper half-limb *)
ShortDivisor == divisor # <<>> /\ divisor[wrapper_n][2] = 0

CalledShort ==
    /\ call.n = 2 * wrapper_n - 1
    /\ call.m = 2 * wrapper_m + 1

(* C13, as stated: with such a divisor algorithm_d_wrapper runs           *)
(* algorithm_d with the divisor length 2n - 1 and the dividend excess     *)
(* 2m + 1, and on return the top half-limb q16[2m + 1] of the quotient is *)
(* zero.                                                                  *)
C13_QuotientTopHalfZero ==
    (pc = "return" /\ ShortDivisor) =>
        /\ CalledShort
        /\ q16[2 * wrapper_m + 2] = 0

(* C13, amended: with such a divisor algorithm_d_wrapper runs algorithm_d *)
(* with the divisor length 2n - 1 and the dividend excess 2m + 1; on      *)
(* return the 2m + 2 half-limbs of q16 are the quotient of u by v, its    *)
(* top half-limb q16[2m + 1] included, and it is the top half-limb        *)
(* u16[2n - 1] of the remainder that is zero, the 2n half-limbs of u16    *)
(* being the remainder.                                                   *)
C13_RemainderTopHalfZero ==
    (pc = "return" /\ ShortDivisor) =>
        /\ CalledShort
        /\ u16[2 * wrapper_n] = 0
        /\ NAdd(NMul(Places(q16, 1, 2 * wrapper_m + 2),
                     NStrip(BytesOf(divisor))),
                Places(u16, 1, 2 * wrapper_n))
               = NStrip(BytesOf(dividend))
        /\ NLess(Places(u16, 1, 2 * wrapper_n), NStrip(BytesOf(divisor)))
        /\ quotient = u16_to_u32(2 * wrapper_m + 2, q16)

(* a two-limb divisor with a zero upper half-limb, so that the main loop *)
(* ran on three half-limbs, and a quotient that fills both half-limbs   *)
(* of q16                                                               *)
C13_Witness ==
    /\ pc = "return"
    /\ ShortDivisor
    /\ wrapper_n = 2
    /\ call.n = 3
    /\ pass.j = 0
    /\ q16[2 * wrapper_m + 2] # 0
    /\ u16[2 * wrapper_n] = 0

====
